---- MODULE Spec2Model ----
(***************************************************************************)
(* Model of lingua_franca's localized-function registry and active-        *)
(* language state (src/lingua_franca/common.py) and of the Formatter       *)
(* operations that dispatch through it (src/lingua_franca/Formatter.py).   *)
(*                                                                         *)
(* A language code is the tuple of its hyphen-separated subtags:           *)
(* "en-us" is <<"en", "us">>, "en" is <<"en">>, and the empty tuple is a   *)
(* falsy code (None or "").                                                *)
(***************************************************************************)
EXTENDS Naturals, Sequences, FiniteSets, TLC

VARIABLES
    default_lang,          \* common.__default_lang
    loaded_langs,          \* common.__loaded_langs, a list of codes
    localized_functions,   \* common._localized_functions: module -> language -> function -> entry
    installed,             \* the language units and functions present in lingua_franca.lang
    res_text,              \* res/text: full language code -> its date_time.json file
    lang_config,           \* DateTimeFormat.lang_config: language key -> loaded configuration
    last                   \* the last call made and how it ended

vars == <<default_lang, loaded_langs, localized_functions, installed,
          res_text, lang_config, last>>

----------------------------------------------------------------------------
(* Bounds of the model *)

\* longest list handed to set_active_langs
MaxLangs == 2

\* how many of the supported languages the model follows
NumSupported == 2

\* the numbers and years 0..MaxYear are formatted, and the years of LaterYears
MaxYear == 9

\* longest token sequence handed to expand_parentheses, the example aside
MaxTokens == 5

\* longest list handed to join_list
MaxItems == 3

----------------------------------------------------------------------------
(* Program constants *)

Code(primary) == <<primary>>

EN == Code("en")
ES == Code("es")
EN_US == <<"en", "us">>
XX == Code("xx")
NoLang == <<>>

\* common._SUPPORTED_LANGUAGES as the source lists it
AllSupportedLanguages ==
    << Code("cs"), Code("da"), Code("de"), Code("en"), Code("es"), Code("fr"),
       Code("hu"), Code("it"), Code("nl"), Code("pt"), Code("sv") >>

\* the supported languages the model follows: NumSupported entries of the
\* source's list, from its fourth entry "en" on
_SUPPORTED_LANGUAGES == SubSeq(AllSupportedLanguages, 4, 3 + NumSupported)

\* Formatter._REGISTERED_FUNCTIONS, and the parse module's catalog as the tests use it
_REGISTERED_FUNCTIONS(lf_module) ==
    IF lf_module = "format"
    THEN {"nice_number", "nice_time", "pronounce_number",
          "nice_response", "nice_ordinal", "nice_part_of_day"}
    ELSE {"extract_number"}

Modules == {"format", "parse"}

Range(s) == {s[i] : i \in 1..Len(s)}

----------------------------------------------------------------------------
(* Inputs *)

\* codes handed to the operations that change the language state
MutLangs == {EN, ES, EN_US}

\* the primary codes among them
PrimaryLangs == {EN, ES}

\* codes handed to the dispatcher and to the Formatter operations
CallLangs == {NoLang, EN, ES, EN_US, XX}

RECURSIVE SeqsUpTo(_, _)
SeqsUpTo(S, n) ==
    IF n = 0 THEN {<<>>}
    ELSE LET shorter == SeqsUpTo(S, n - 1)
         IN shorter \cup {Append(s, x) : s \in {t \in shorter : Len(t) = n - 1}, x \in S}

\* lists handed to set_active_langs: every list of at most MaxLangs codes
LangLists == SeqsUpTo(MutLangs, MaxLangs)

\* the lists handed to set_active_langs where the registry is followed
ShortLists == {<<>>, <<EN>>, <<ES>>, <<EN_US>>, <<EN, ES>>}

\* The installations considered: which lingua_franca.lang.<module>_<lang> units
\* can be imported, which catalog functions each defines, and which languages'
\* common_data unit carries _FUNCTION_NOT_IMPLEMENTED_WARNING.
AllUnits == {<<m, l>> : m \in Modules, l \in Range(_SUPPORTED_LANGUAGES)}

FullFunctions ==
    {<<"format", l, f>> : l \in Range(_SUPPORTED_LANGUAGES) \ {ES},
                          f \in _REGISTERED_FUNCTIONS("format")}
    \cup {<<"format", ES, f>> : f \in {"nice_number", "nice_time", "pronounce_number"}}
    \cup {<<"parse", l, "extract_number">> : l \in {EN, ES}}

\* an installation holding the units us and, of the functions fs, those its units define
Installation(us, fs, ws) ==
    [units |-> us,
     functions |-> {t \in fs : <<t[1], t[2]>> \in us},
     warnings |-> ws]

Installations ==
    { Installation(AllUnits, FullFunctions, {EN}),
      Installation(AllUnits \ {<<"format", ES>>},
                   FullFunctions \ {<<"format", EN, "nice_ordinal">>}, {}) }

----------------------------------------------------------------------------
(* Language codes *)

\* get_full_lang_code(lang), evaluated with __default_lang = dflt
get_full_lang_code(lang, dflt) ==
    LET l == IF lang = NoLang THEN dflt ELSE lang
    IN IF l = NoLang THEN EN_US ELSE l

\* get_primary_lang_code(lang): the text before the first hyphen
get_primary_lang_code(lang, dflt) == Code(Head(get_full_lang_code(lang, dflt)))

\* the list as given, its duplicates left in
fromkeys_keeps_duplicates(langs) == langs

\* list(dict.fromkeys(langs)): duplicates removed, first occurrence kept
RECURSIVE fromkeys(_)
fromkeys(langs) ==
    IF langs = <<>> THEN <<>>
    ELSE LET front == fromkeys(SubSeq(langs, 1, Len(langs) - 1))
             x == langs[Len(langs)]
         IN IF x \in Range(front) THEN front ELSE Append(front, x)

----------------------------------------------------------------------------
(* The registry *)

NoFunctions == [f \in {} |-> f]

\* the entry populate_localized_function_dict binds for one catalog function
FunctionEntry(inst, lf_module, lang_code, function_name) ==
    IF <<lf_module, lang_code, function_name>> \in inst.functions
    THEN [kind |-> "signature", of |-> <<lf_module, lang_code, function_name>>]
    ELSE [kind |-> "FunctionNotLocalizedError",
          message |-> IF lang_code \in inst.warnings THEN "localized" ELSE "generic"]

\* the per-language dictionary populate_localized_function_dict builds
LanguageEntry(inst, lf_module, lang_code) ==
    IF <<lf_module, lang_code>> \in inst.units
    THEN [f \in _REGISTERED_FUNCTIONS(lf_module) |->
              FunctionEntry(inst, lf_module, lang_code, f)]
    ELSE NoFunctions

\* populate that keeps what the module's registry held before the run
populate_keeping_registered(inst, lf_module, langs) ==
    LET fresh == [lang_code \in Range(langs) |->
                     LanguageEntry(inst, lf_module, lang_code)]
    IN IF lf_module \in DOMAIN localized_functions
       THEN localized_functions[lf_module] @@ fresh
       ELSE fresh

\* return_dict of populate_localized_function_dict(lf_module, langs)
populate_localized_function_dict(inst, lf_module, langs) ==
    [lang_code \in Range(langs) |-> LanguageEntry(inst, lf_module, lang_code)]

\* _refresh_function_dict(): every populated module again, against langs
_refresh_function_dict(inst, funcs, langs) ==
    [mod \in DOMAIN funcs |-> populate_localized_function_dict(inst, mod, langs)]

----------------------------------------------------------------------------
(* The active-language state.  An operation is an operator from the state   *)
(* before the call to the state after it; "raised" names the exception the *)
(* call ended with, "" when it returned.                                   *)

State(d, l, f) ==
    [default_lang |-> d, loaded_langs |-> l, localized_functions |-> f, raised |-> ""]

Current == State(default_lang, loaded_langs, localized_functions)

\* set_default_lang(lang_code)
set_default_lang(st, lang_code) ==
    IF lang_code \notin Range(st.loaded_langs)
    THEN LET loaded == <<lang_code>> \o st.loaded_langs
         IN [st EXCEPT !.default_lang = lang_code,
                       !.loaded_langs = loaded,
                       !.localized_functions =
                           _refresh_function_dict(installed, st.localized_functions, loaded)]
    ELSE [st EXCEPT !.default_lang = lang_code]

\* set_active_langs(langs, override_default); a str argument is the one-element list
set_active_langs(st, langs, override_default) ==
    LET primaries == [i \in 1..Len(langs) |->
                          get_primary_lang_code(langs[i], st.default_lang)]
        loaded == fromkeys(primaries)
        replaced == [st EXCEPT !.loaded_langs = loaded]
        change == override_default
                  \/ get_primary_lang_code(st.default_lang, st.default_lang)
                         \notin Range(loaded)
    IN IF change /\ loaded = <<>>
       THEN [replaced EXCEPT !.raised = "IndexError"]
       ELSE LET st2 == IF change
                       THEN set_default_lang(replaced,
                                get_full_lang_code(loaded[1], st.default_lang))
                       ELSE replaced
            IN [st2 EXCEPT !.localized_functions =
                    _refresh_function_dict(installed, st2.localized_functions,
                                           st2.loaded_langs)]

\* load_language(lang)
load_language(st, lang) ==
    IF lang \notin Range(st.loaded_langs)
    THEN [st EXCEPT !.loaded_langs = Append(st.loaded_langs, lang)]
    ELSE st

\* list.remove: the list without the first occurrence of x
RECURSIVE Remove(_, _)
Remove(s, x) ==
    IF s = <<>> THEN <<>>
    ELSE IF Head(s) = x THEN Tail(s)
    ELSE <<Head(s)>> \o Remove(Tail(s), x)

\* unloading that never moves the default
unload_language_keeps_default(st, lang) ==
    IF lang \notin Range(st.loaded_langs) THEN st
    ELSE LET remaining == Remove(st.loaded_langs, lang)
         IN [st EXCEPT !.loaded_langs = remaining,
                       !.localized_functions =
                           _refresh_function_dict(installed, st.localized_functions,
                                                  remaining)]

\* unload_language(lang): the language leaves the loaded list; when it was the
\* default, the first remaining language becomes the default; the registry is
\* recomputed.
unload_language(st, lang) ==
    IF lang \notin Range(st.loaded_langs) THEN st
    ELSE LET remaining == Remove(st.loaded_langs, lang)
             was_default == get_primary_lang_code(lang, st.default_lang)
                            = get_primary_lang_code(st.default_lang, st.default_lang)
             d == IF was_default /\ remaining # <<>> THEN remaining[1]
                  ELSE st.default_lang
         IN [st EXCEPT !.default_lang = d,
                       !.loaded_langs = remaining,
                       !.localized_functions =
                           _refresh_function_dict(installed, st.localized_functions,
                                                  remaining)]

----------------------------------------------------------------------------
(* The dispatcher *)

\* the dispatcher with the module looked up before the language is validated
localized_function_caller_module_first(mod, func_name, lang) ==
    LET lang_code == get_primary_lang_code(
                         IF lang = NoLang THEN default_lang ELSE lang, default_lang)
    IN IF mod \notin DOMAIN localized_functions
           THEN "ModuleNotFoundError: not recognized"
       ELSE IF lang_code \notin Range(_SUPPORTED_LANGUAGES)
           THEN "UnsupportedLanguageError"
       ELSE IF lang_code \notin DOMAIN localized_functions[mod]
           THEN "ModuleNotFoundError: not currently loaded"
       ELSE IF func_name \notin DOMAIN localized_functions[mod][lang_code]
           THEN "KeyError"
       ELSE IF localized_functions[mod][lang_code][func_name].kind
                   = "FunctionNotLocalizedError"
           THEN "FunctionNotLocalizedError"
       ELSE ""

\* how localized_function_caller(mod, func_name, lang, args) ends:
\* the exception it raises, or "" when the implementation is invoked
localized_function_caller(mod, func_name, lang) ==
    LET lang_code == get_primary_lang_code(
                         IF lang = NoLang THEN default_lang ELSE lang, default_lang)
    IN IF lang_code \notin Range(_SUPPORTED_LANGUAGES)
           THEN "UnsupportedLanguageError"
       ELSE IF mod \notin DOMAIN localized_functions
           THEN "ModuleNotFoundError: not recognized"
       ELSE IF lang_code \notin DOMAIN localized_functions[mod]
           THEN "ModuleNotFoundError: not currently loaded"
       ELSE IF func_name \notin DOMAIN localized_functions[mod][lang_code]
           THEN "KeyError"
       ELSE IF localized_functions[mod][lang_code][func_name].kind
                   = "FunctionNotLocalizedError"
           THEN "FunctionNotLocalizedError"
       ELSE ""

\* the names the Formatter's operations hand over as locals().items()
ArgNames == {"self", "number", "lang", "speech"}

\* the values an argument may carry
ArgValues == {"v1", "v2"}

\* the parameters the implementation func_name + "_" + lang_code declares
\* (signature(function).parameters): the installed implementations differ in them
Parameters(of) ==
    IF of[1] = "parse" THEN {"text", "lang"}
    ELSE IF of[2] = "en" THEN {"number", "speech"}
    ELSE {"number"}

\* every supplied argument handed to the implementation, declared or not
passed_arguments_unfiltered(func_signature, args) == args

\* {arg: val for arg, val in args if arg in func_signature.parameters}
passed_arguments(func_signature, args) ==
    [arg \in {a \in DOMAIN args : a \in Parameters(func_signature.of)} |-> args[arg]]

\* the keyword arguments func is invoked with when the dispatcher resolves
invoked_with(mod, func_name, lang, args) ==
    LET lang_code == get_primary_lang_code(
                         IF lang = NoLang THEN default_lang ELSE lang, default_lang)
        func_signature == localized_functions[mod][lang_code][func_name]
    IN passed_arguments(func_signature, args)

\* UnsupportedLanguageError and FunctionNotLocalizedError derive from NotImplementedError
IsNotImplementedError(raised) ==
    raised \in {"UnsupportedLanguageError", "FunctionNotLocalizedError",
                "NotImplementedError"}

----------------------------------------------------------------------------
(* The Formatter operations.  An operation's end is the exception it raises *)
(* ("" when it returns) and the value it returns: "r_val" is the localized  *)
(* implementation's result, "str(input)" the raw string of the input,      *)
(* "text" the input text itself.                                           *)

End(raised, value) == [raised |-> raised, value |-> value]

\* results a localized implementation may hand back: a phrase or a falsy value
ImplResults == {"r_val", ""}

\* nice_number, nice_time, pronounce_number: try / except NotImplementedError
CatchingCall(func_name, lang, r_val) ==
    LET raised == localized_function_caller("format", func_name, lang)
    IN IF raised = "" THEN End("", r_val)
       ELSE IF IsNotImplementedError(raised) THEN End("", "str(input)")
       ELSE End(raised, "")

nice_number(lang, r_val) == CatchingCall("nice_number", lang, r_val)

nice_time(lang, r_val) == CatchingCall("nice_time", lang, r_val)

pronounce_number(lang, r_val) == CatchingCall("pronounce_number", lang, r_val)

\* nice_response, nice_ordinal: call_localized_function(...) or text
OrTextCall(func_name, lang, r_val) ==
    LET raised == localized_function_caller("format", func_name, lang)
    IN IF raised # "" THEN End(raised, "")
       ELSE IF r_val = "" THEN End("", "text")
       ELSE End("", r_val)

nice_response(lang, r_val) == OrTextCall("nice_response", lang, r_val)

nice_ordinal(lang, r_val) == OrTextCall("nice_ordinal", lang, r_val)

\* nice_part_of_day: a falsy result raises NotImplementedError("..." + lang)
nice_part_of_day(lang, r_val) ==
    LET raised == localized_function_caller("format", "nice_part_of_day", lang)
    IN IF raised # "" THEN End(raised, "")
       ELSE IF r_val = ""
            THEN End(IF lang = NoLang THEN "TypeError" ELSE "NotImplementedError", "")
       ELSE End("", r_val)

FormatterCall(func_name, lang, r_val) ==
    CASE func_name = "nice_number" -> nice_number(lang, r_val)
      [] func_name = "nice_time" -> nice_time(lang, r_val)
      [] func_name = "pronounce_number" -> pronounce_number(lang, r_val)
      [] func_name = "nice_response" -> nice_response(lang, r_val)
      [] func_name = "nice_ordinal" -> nice_ordinal(lang, r_val)
      [] func_name = "nice_part_of_day" -> nice_part_of_day(lang, r_val)

----------------------------------------------------------------------------
(* Strings of the date and number formatting.  A string is the sequence of  *)
(* its pieces: a piece is one space, one decimal digit, or a chunk of text  *)
(* without spaces; a template also holds placeholders such as "{x}".        *)

Digits == <<"0", "1", "2", "3", "4", "5", "6", "7", "8", "9">>

AnyDigit == Range(Digits)

\* str(n) of a non-negative integer: its decimal digits
RECURSIVE str(_)
str(n) == IF n < 10 THEN <<Digits[n + 1]>>
          ELSE str(n \div 10) \o <<Digits[(n % 10) + 1]>>

\* Python's None, which str.format renders as the text None
None == <<"None">>

\* a regular expression of the rule tables: one character class per position,
\* closed by "$" or left open
Regex(classes, dollar) == [classes |-> classes, dollar |-> dollar]

\* re.match(string): the pattern is matched at the start of the string
re_match(re, string) ==
    /\ Len(string) >= Len(re.classes)
    /\ \A i \in 1..Len(re.classes) : string[i] \in re.classes[i]
    /\ re.dollar => Len(string) = Len(re.classes)

\* the replacement fields the templates of date_time.json use
Placeholders ==
    { "{x}", "{xx}", "{x0}", "{x_in_x0}", "{xxx}", "{x00}", "{x_in_x00}", "{xx00}",
      "{xx_in_xx00}", "{x000}", "{x_in_x000}", "{x0_in_x000}", "{x_in_0x00}",
      "{number}", "{formatted_decade}", "{formatted_hundreds}",
      "{formatted_thousand}", "{year}", "{century}", "{decade}", "{bc}",
      "{weekday}", "{month}", "{day}", "{formatted_year}" }

\* template.format(**args): every placeholder is replaced by its argument
RECURSIVE str_format(_, _)
str_format(s, args) ==
    IF s = <<>> THEN <<>>
    ELSE (IF Head(s) \in Placeholders THEN args[Head(s)] ELSE <<Head(s)>>)
             \o str_format(Tail(s), args)

\* re.sub(' +', ' ', s): every run of spaces becomes one space
RECURSIVE collapse_spaces(_)
collapse_spaces(s) ==
    IF Len(s) < 2 THEN s
    ELSE IF s[1] = " " /\ s[2] = " " THEN collapse_spaces(Tail(s))
    ELSE <<s[1]>> \o collapse_spaces(Tail(s))

RECURSIVE lstrip(_)
lstrip(s) == IF s # <<>> /\ Head(s) = " " THEN lstrip(Tail(s)) ELSE s

RECURSIVE rstrip(_)
rstrip(s) == IF s # <<>> /\ s[Len(s)] = " " THEN rstrip(SubSeq(s, 1, Len(s) - 1)) ELSE s

\* s.strip()
strip(s) == rstrip(lstrip(s))

----------------------------------------------------------------------------
(* The content of res/text/<lang>/date_time.json, as DateTimeFormat reads   *)
(* it: a word table 'number', four rule tables (numbered rules with 'match' *)
(* and 'format', and a 'default'), the date templates and calendar words.   *)

ES_ES == <<"es", "es">>

Rule(match, format) == [match |-> match, format |-> format]

Section(rules, default) == [rules |-> rules, default |-> default]

\* a word table with a word for every number of keys
WordTable(keys) == [k \in {str(n) : n \in keys} |-> <<"w">> \o k]

Tens == {10, 20, 30, 40, 50, 60, 70, 80, 90}

\* the calendar words: weekday 0..6, month 1..12, day of the month 1..31
CalendarTables ==
    [ weekday |-> [k \in {str(n) : n \in 0..6} |-> <<"weekday">> \o k],
      month |-> [k \in {str(n) : n \in 1..12} |-> <<"month">> \o k],
      date |-> [k \in {str(n) : n \in 1..31} |-> <<"day">> \o k] ]

\* a configuration in the manner of en-us: every rule table ordered from the
\* narrowest pattern to the widest, words for the usual numbers
EnUsConfig ==
    [ number |-> WordTable((0..20) \cup Tens \cup {100, 1000}),
      decade_format |-> Section(
          << Rule(Regex(<<AnyDigit>>, TRUE), <<"{x}">>),
             Rule(Regex(<<{"1"}, AnyDigit>>, TRUE), <<"{xx}">>),
             Rule(Regex(<<AnyDigit, {"0"}>>, TRUE), <<"{x0}">>),
             Rule(Regex(<<AnyDigit \ {"0", "1"}, AnyDigit>>, TRUE),
                  <<"{x0}", " ", "{x}">>) >>,
          <<"{number}">>),
      hundreds_format |-> Section(
          << Rule(Regex(<<AnyDigit, AnyDigit, AnyDigit>>, TRUE),
                  <<"{x_in_x00}", " ", "hundred">>) >>,
          <<"{number}">>),
      thousand_format |-> Section(
          << Rule(Regex(<<AnyDigit, {"0"}, {"0"}, AnyDigit>>, TRUE),
                  <<"{x_in_x000}", " ", "thousand">>),
             Rule(Regex(<<{"1"}, AnyDigit \ {"0"}, AnyDigit, AnyDigit>>, TRUE),
                  <<"{xx_in_xx00}", " ", "hundred">>),
             Rule(Regex(<<AnyDigit, AnyDigit, {"0"}, {"0"}>>, TRUE),
                  <<"{xx_in_xx00}", " ", "hundred">>),
             Rule(Regex(<<AnyDigit, AnyDigit, AnyDigit, AnyDigit>>, TRUE),
                  <<"{xx_in_xx00}">>) >>,
          <<"{number}">>),
      year_format |-> Section(
          << Rule(Regex(<<AnyDigit>>, TRUE), <<"{formatted_decade}", " ", "{bc}">>),
             Rule(Regex(<<AnyDigit, AnyDigit>>, TRUE),
                  <<"{formatted_decade}", " ", "{bc}">>),
             Rule(Regex(<<AnyDigit, {"0"}, {"0"}>>, TRUE),
                  <<"{formatted_hundreds}", " ", "{bc}">>),
             Rule(Regex(<<AnyDigit, AnyDigit, AnyDigit>>, TRUE),
                  <<"{formatted_hundreds}", " ", "{formatted_decade}", " ", "{bc}">>),
             Rule(Regex(<<AnyDigit, AnyDigit, {"0"}, {"0"}>>, TRUE),
                  <<"{formatted_thousand}", " ", "{bc}">>),
             Rule(Regex(<<AnyDigit, AnyDigit, {"0"}, AnyDigit>>, TRUE),
                  <<"{formatted_thousand}", " ", "oh", " ", "{formatted_decade}",
                    " ", "{bc}">>),
             Rule(Regex(<<AnyDigit, AnyDigit, AnyDigit, AnyDigit>>, TRUE),
                  <<"{formatted_thousand}", " ", "{formatted_decade}", " ", "{bc}">>) >>,
          <<"{year}", " ", "{bc}">>) @@ [bc |-> <<"b.c.">>],
      date_format |->
          [ date_full |-> <<"{weekday}", ",", " ", "{month}", " ", "{day}", ",", " ",
                            "{formatted_year}">>,
            date_full_no_year |-> <<"{weekday}", ",", " ", "{month}", " ", "{day}">>,
            date_full_no_year_month |-> <<"{weekday}", ",", " ", "the", " ", "{day}">>,
            today |-> <<"today">>,
            tomorrow |-> <<"tomorrow">>,
            yesterday |-> <<"yesterday">> ] ] @@ CalendarTables

\* a configuration with an incomplete word table, words that hold spaces,
\* rules that overlap, a rule table without rules, an empty template and
\* templates with spaces at their ends
SparseConfig ==
    [ number |-> (str(2) :> <<" ", "two", " ", " ", "b">>) @@ WordTable({1, 3}),
      decade_format |-> Section(
          << Rule(Regex(<<{"0"}>>, TRUE), <<>>),
             Rule(Regex(<<AnyDigit>>, FALSE), <<"{x}">>),
             Rule(Regex(<<{"1"}, AnyDigit>>, TRUE), <<"{xx}">>) >>,
          <<"{number}">>),
      hundreds_format |-> Section(<<>>, <<"{number}">>),
      thousand_format |-> Section(
          << Rule(Regex(<<AnyDigit, AnyDigit, AnyDigit, AnyDigit>>, TRUE),
                  <<"{x_in_0x00}", " ", " ", "{formatted_hundreds}">>) >>,
          <<" ", "{number}", " ">>),
      year_format |-> Section(
          << Rule(Regex(<<AnyDigit, AnyDigit, AnyDigit, AnyDigit>>, TRUE),
                  <<" ", "{formatted_thousand}", " ", " ", "{formatted_decade}", " ",
                    "{bc}", " ">>) >>,
          <<"{bc}", " ", "{year}", " ", "{formatted_decade}">>)
          @@ [bc |-> <<" ", "bc", " ">>],
      date_format |->
          [ date_full |-> <<"{day}", " ", "{month}", " ", "{formatted_year}">>,
            date_full_no_year |-> <<"{day}", " ", "{month}">>,
            date_full_no_year_month |-> <<"{day}">>,
            today |-> <<"hoy">>,
            tomorrow |-> <<"manana">>,
            yesterday |-> <<"ayer">> ] ] @@ CalendarTables

\* a match pattern re.compile() rejects with re.error
BadPattern == [unbalanced |-> "("]

\* a configuration whose second decade rule has a pattern that cannot be compiled
BrokenConfig ==
    [SparseConfig EXCEPT !.decade_format.rules[2].match = BadPattern]

\* the rule tables of a configuration
FormatSections == {"decade_format", "hundreds_format", "thousand_format", "year_format"}

----------------------------------------------------------------------------
(* DateTimeFormat.  config is self.lang_config, files the content of       *)
(* res/text.                                                               *)

\* the loop of cache() over a rule table: every numbered rule gets its 're'
CompiledSection(section) ==
    [section EXCEPT !.rules =
        [i \in DOMAIN section.rules |->
            section.rules[i] @@ [re |-> section.rules[i].match]]]

Compiled(data) ==
    [data EXCEPT !.decade_format = CompiledSection(data.decade_format),
                 !.hundreds_format = CompiledSection(data.hundreds_format),
                 !.thousand_format = CompiledSection(data.thousand_format),
                 !.year_format = CompiledSection(data.year_format)]

\* json.loads(lang_config_file.read()): the content of a date_time.json file
json_loads(lang_config_file) ==
    IF lang_config_file = "EnUsConfig" THEN EnUsConfig
    ELSE IF lang_config_file = "BrokenConfig" THEN BrokenConfig
    ELSE SparseConfig

\* the order in which cache() walks the rule tables
SectionOrder == <<"decade_format", "hundreds_format", "thousand_format", "year_format">>

\* re.compile(pattern) returns a compiled pattern
Compiles(pattern) == "classes" \in DOMAIN pattern

\* the loop of cache() gets as far as rule i of table SectionOrder[s] and
\* compiles it: no rule before it, nor the rule itself, stops the loop
IsCompiled(data, s, i) ==
    \A t \in 1..s : \A j \in DOMAIN data[SectionOrder[t]].rules :
        (t < s \/ j <= i) => Compiles(data[SectionOrder[t]].rules[j].match)

\* the loop of cache() raises re.error
CompileFails(data) ==
    \E s \in DOMAIN SectionOrder : \E i \in DOMAIN data[SectionOrder[s]].rules :
        ~Compiles(data[SectionOrder[s]].rules[i].match)

\* the stored entry when the loop of cache() ends, by running out of rules or
\* by the first re.error: the rules it got to carry their 're'
CompiledSoFar(data) ==
    [x \in DOMAIN data |->
        IF \E s \in DOMAIN SectionOrder : SectionOrder[s] = x
        THEN LET s == CHOOSE s \in DOMAIN SectionOrder : SectionOrder[s] = x
             IN [data[x] EXCEPT !.rules =
                    [i \in DOMAIN data[x].rules |->
                        IF IsCompiled(data, s, i)
                        THEN data[x].rules[i] @@ [re |-> data[x].rules[i].match]
                        ELSE data[x].rules[i]]]
        ELSE data[x]]

\* the file cache() reads for lang: its own, else the one of en-us
ConfigFile(files, lang) == IF lang \in DOMAIN files THEN files[lang] ELSE files[EN_US]

\* how cache(lang) ends: the exception it raises, "" when it returns
cache_raised(config, files, lang) ==
    IF lang \in DOMAIN config THEN ""
    ELSE IF lang \notin DOMAIN files /\ EN_US \notin DOMAIN files
        THEN "FileNotFoundError"
    ELSE IF CompileFails(json_loads(ConfigFile(files, lang))) THEN "re.error"
    ELSE ""

\* cache() that loads the language again on every call
cache_always_loads(config, files, lang) ==
    (lang :> Compiled(json_loads(IF lang \in DOMAIN files THEN files[lang]
                                 ELSE files[EN_US])))
        @@ config

\* cache(lang): self.lang_config after the call
cache(config, files, lang) ==
    IF lang \in DOMAIN config THEN config
    ELSE IF lang \notin DOMAIN files /\ EN_US \notin DOMAIN files THEN config
    ELSE (lang :> CompiledSoFar(json_loads(ConfigFile(files, lang)))) @@ config

\* table.get(key) or key
GetOr(table, key) ==
    IF key \in DOMAIN table /\ table[key] # <<>> THEN table[key] ELSE key

\* table.get(key or key): no fallback is left
Get(table, key) == IF key \in DOMAIN table THEN table[key] ELSE None

\* _number_strings with the fallback on every field
_number_strings_all_fallback(config, number, lang) ==
    LET t == config[lang].number
    IN [ x |-> GetOr(t, str(number % 10)),
         xx |-> GetOr(t, str(number % 100)),
         x0 |-> GetOr(t, str(((number % 100) \div 10) * 10)),
         x_in_x0 |-> GetOr(t, str((number % 100) \div 10)),
         xxx |-> GetOr(t, str(number % 1000)),
         x00 |-> GetOr(t, str(((number % 1000) \div 100) * 100)),
         x_in_x00 |-> GetOr(t, str((number % 1000) \div 100)),
         xx00 |-> GetOr(t, str(((number % 10000) \div 100) * 100)),
         xx_in_xx00 |-> GetOr(t, str((number % 10000) \div 100)),
         x000 |-> GetOr(t, str(((number % 10000) \div 1000) * 1000)),
         x_in_x000 |-> GetOr(t, str((number % 10000) \div 1000)),
         x0_in_x000 |-> GetOr(t, str(((number % 10000) \div 1000) * 10)),
         x_in_0x00 |-> GetOr(t, str((number % 1000) \div 100)) ]

\* _number_strings(number, lang): the NUMBER_TUPLE
_number_strings(config, number, lang) ==
    LET t == config[lang].number
    IN [ x |-> GetOr(t, str(number % 10)),
         xx |-> GetOr(t, str(number % 100)),
         x0 |-> GetOr(t, str(((number % 100) \div 10) * 10)),
         x_in_x0 |-> GetOr(t, str((number % 100) \div 10)),
         xxx |-> GetOr(t, str(number % 1000)),
         x00 |-> GetOr(t, str(((number % 1000) \div 100) * 100)),
         x_in_x00 |-> GetOr(t, str((number % 1000) \div 100)),
         xx00 |-> GetOr(t, str(((number % 10000) \div 100) * 100)),
         xx_in_xx00 |-> GetOr(t, str((number % 10000) \div 100)),
         x000 |-> GetOr(t, str(((number % 10000) \div 1000) * 1000)),
         x_in_x000 |-> GetOr(t, str((number % 10000) \div 1000)),
         x0_in_x000 |-> GetOr(t, str(((number % 10000) \div 1000) * 10)),
         x_in_0x00 |-> Get(t, str((number % 1000) \div 100)) ]

\* the while loop of _format_string from rule i on
RECURSIVE ScanRules(_, _, _)
ScanRules(section, number, i) ==
    IF i \notin DOMAIN section.rules THEN section.default
    ELSE IF re_match(section.rules[i].re, str(number)) THEN section.rules[i].format
    ELSE ScanRules(section, number, i + 1)

\* the while loop of _format_string from rule i on meets a rule without 're'
\* before a rule matches: e['re'] raises KeyError
RECURSIVE ScanRaises(_, _, _)
ScanRaises(section, number, i) ==
    IF i \notin DOMAIN section.rules THEN FALSE
    ELSE IF "re" \notin DOMAIN section.rules[i] THEN TRUE
    ELSE IF re_match(section.rules[i].re, str(number)) THEN FALSE
    ELSE ScanRaises(section, number, i + 1)

\* how _format_string(number, format_section, lang) ends
_format_string_raised(config, number, format_section, lang) ==
    IF ScanRaises(config[lang][format_section], number, 1) THEN "KeyError" ELSE ""

\* the loop of _format_string keeping the last rule that matches
RECURSIVE ScanRulesLast(_, _, _)
ScanRulesLast(section, number, i) ==
    IF i \notin DOMAIN section.rules THEN section.default
    ELSE LET rest == ScanRulesLast(section, number, i + 1)
         IN IF re_match(section.rules[i].re, str(number)) /\ rest = section.default
            THEN section.rules[i].format
            ELSE rest

_format_string_last_match(config, number, format_section, lang) ==
    ScanRulesLast(config[lang][format_section], number, 1)

\* _format_string(number, format_section, lang)
_format_string(config, number, format_section, lang) ==
    ScanRules(config[lang][format_section], number, 1)

\* _decade_format(number, number_tuple, lang)
_decade_format(config, number, number_tuple, lang) ==
    str_format(_format_string(config, number % 100, "decade_format", lang),
               [f \in {"{x}", "{xx}", "{x0}", "{x_in_x0}", "{number}"} |->
                   CASE f = "{x}" -> number_tuple.x
                     [] f = "{xx}" -> number_tuple.xx
                     [] f = "{x0}" -> number_tuple.x0
                     [] f = "{x_in_x0}" -> number_tuple.x_in_x0
                     [] f = "{number}" -> str(number % 100)])

\* _number_format_hundreds(number, number_tuple, lang, formatted_decade)
_number_format_hundreds(config, number, number_tuple, lang, formatted_decade) ==
    str_format(_format_string(config, number % 1000, "hundreds_format", lang),
               [f \in {"{xxx}", "{x00}", "{x_in_x00}", "{formatted_decade}",
                       "{number}"} |->
                   CASE f = "{xxx}" -> number_tuple.xxx
                     [] f = "{x00}" -> number_tuple.x00
                     [] f = "{x_in_x00}" -> number_tuple.x_in_x00
                     [] f = "{formatted_decade}" -> formatted_decade
                     [] f = "{number}" -> str(number % 1000)])

\* _number_format_thousand(number, number_tuple, lang, formatted_decade,
\*                         formatted_hundreds)
_number_format_thousand(config, number, number_tuple, lang, formatted_decade, formatted_hundreds) ==
    str_format(_format_string(config, number % 10000, "thousand_format", lang),
               [f \in {"{x_in_x00}", "{xx00}", "{xx_in_xx00}", "{x000}",
                       "{x_in_x000}", "{x0_in_x000}", "{x_in_0x00}",
                       "{formatted_decade}", "{formatted_hundreds}", "{number}"} |->
                   CASE f = "{x_in_x00}" -> number_tuple.x_in_x00
                     [] f = "{xx00}" -> number_tuple.xx00
                     [] f = "{xx_in_xx00}" -> number_tuple.xx_in_xx00
                     [] f = "{x000}" -> number_tuple.x000
                     [] f = "{x_in_x000}" -> number_tuple.x_in_x000
                     [] f = "{x0_in_x000}" -> number_tuple.x0_in_x000
                     [] f = "{x_in_0x00}" -> number_tuple.x_in_0x00
                     [] f = "{formatted_decade}" -> formatted_decade
                     [] f = "{formatted_hundreds}" -> formatted_hundreds
                     [] f = "{number}" -> str(number % 10000)])

\* the year template of year_format with its replacement fields filled in
YearFormatted(config, year, lang, bc) ==
    LET number_tuple == _number_strings(config, year, lang)
        formatted_bc == IF bc THEN config[lang].year_format.bc ELSE <<>>
        formatted_decade == _decade_format(config, year, number_tuple, lang)
        formatted_hundreds ==
            _number_format_hundreds(config, year, number_tuple, lang, formatted_decade)
        formatted_thousand ==
            _number_format_thousand(config, year, number_tuple, lang,
                                    formatted_decade, formatted_hundreds)
    IN str_format(_format_string(config, year, "year_format", lang),
                  [f \in {"{year}", "{century}", "{decade}", "{formatted_hundreds}",
                          "{formatted_decade}", "{formatted_thousand}", "{bc}"} |->
                      CASE f = "{year}" -> str(year)
                        [] f = "{century}" -> str(year \div 100)
                        [] f = "{decade}" -> str(year % 100)
                        [] f = "{formatted_hundreds}" -> formatted_hundreds
                        [] f = "{formatted_decade}" -> formatted_decade
                        [] f = "{formatted_thousand}" -> formatted_thousand
                        [] f = "{bc}" -> formatted_bc])

\* year_format with the template normalized before its fields are filled in
year_format_normalizes_template(config, year, lang, bc) ==
    LET normal == [config EXCEPT ![lang].year_format =
                      [rules |-> [i \in DOMAIN @.rules |->
                                     [@.rules[i] EXCEPT
                                         !.format = strip(collapse_spaces(@))]],
                       default |-> strip(collapse_spaces(@.default)),
                       bc |-> @.bc]]
    IN YearFormatted(normal, year, lang, bc)

\* year_format(dt, lang, bc) for dt.year = year
year_format(config, year, lang, bc) ==
    strip(collapse_spaces(YearFormatted(config, year, lang, bc)))

----------------------------------------------------------------------------
(* Dates: a datetime is its date, a record of year, month and day *)

Date(year, month, day) == [year |-> year, month |-> month, day |-> day]

\* now=None
NoDate == Date(0, 0, 0)

IsLeap(year) == year % 4 = 0 /\ (year % 100 # 0 \/ year % 400 = 0)

DaysInMonth(year, month) ==
    IF month = 2 THEN (IF IsLeap(year) THEN 29 ELSE 28)
    ELSE IF month \in {4, 6, 9, 11} THEN 30
    ELSE 31

\* date + datetime.timedelta(days=1)
PlusOneDay(date) ==
    IF date.day < DaysInMonth(date.year, date.month)
        THEN Date(date.year, date.month, date.day + 1)
    ELSE IF date.month < 12 THEN Date(date.year, date.month + 1, 1)
    ELSE Date(date.year + 1, 1, 1)

\* date - datetime.timedelta(days=1)
MinusOneDay(date) ==
    IF date.day > 1 THEN Date(date.year, date.month, date.day - 1)
    ELSE IF date.month > 1
        THEN Date(date.year, date.month - 1, DaysInMonth(date.year, date.month - 1))
    ELSE Date(date.year - 1, 12, 31)

RECURSIVE DaysBeforeMonth(_, _)
DaysBeforeMonth(year, month) ==
    IF month = 1 THEN 0
    ELSE DaysBeforeMonth(year, month - 1) + DaysInMonth(year, month - 1)

\* date.toordinal(): 1 for the first of January of year 1
ToOrdinal(date) ==
    LET y == date.year - 1
    IN y * 365 + (y \div 4) - (y \div 100) + (y \div 400)
           + DaysBeforeMonth(date.year, date.month) + date.day

\* date.weekday(): 0 for Monday
Weekday(date) == (ToOrdinal(date) + 6) % 7

\* date_format choosing the shortened templates before tomorrow, today, yesterday
date_format_str_elision_first(dt, now) ==
    IF now = NoDate THEN "date_full"
    ELSE IF dt.year = now.year /\ dt.month = now.month /\ dt.day > now.day
        THEN "date_full_no_year_month"
    ELSE IF dt.year = now.year THEN "date_full_no_year"
    ELSE IF PlusOneDay(now) = dt THEN "tomorrow"
    ELSE IF now = dt THEN "today"
    ELSE IF MinusOneDay(now) = dt THEN "yesterday"
    ELSE "date_full"

\* date_format: the name of the template the call ends with in format_str
date_format_str(dt, now) ==
    LET elided == IF now # NoDate /\ dt.year = now.year
                  THEN (IF dt.month = now.month /\ dt.day > now.day
                        THEN "date_full_no_year_month"
                        ELSE "date_full_no_year")
                  ELSE "date_full"
    IN IF now = NoDate THEN elided
       ELSE IF PlusOneDay(now) = dt THEN "tomorrow"
       ELSE IF now = dt THEN "today"
       ELSE IF MinusOneDay(now) = dt THEN "yesterday"
       ELSE elided

\* the return statement of date_format for the template named format_str
DateFormatted(config, dt, lang, format_str) ==
    str_format(config[lang].date_format[format_str],
               [f \in {"{weekday}", "{month}", "{day}", "{formatted_year}"} |->
                   CASE f = "{weekday}" -> config[lang].weekday[str(Weekday(dt))]
                     [] f = "{month}" -> config[lang].month[str(dt.month)]
                     [] f = "{day}" -> config[lang].date[str(dt.day)]
                     [] f = "{formatted_year}" ->
                            year_format(config, dt.year, lang, FALSE)])

\* date_format(dt, lang, now)
date_format(config, dt, lang, now) ==
    DateFormatted(config, dt, lang, date_format_str(dt, now))

----------------------------------------------------------------------------
(* SentenceTreeParser(sent).expand_parentheses(), a recursive descent over  *)
(* tokens in which "(", "|" and ")" stand alone.  A scan ends with the     *)
(* sequences of its region, the position after it, and the error raised.   *)

Scanned(raised, result, next) == [raised |-> raised, result |-> result, next |-> next]

\* every sequence of current continued by the token
WithToken(current, token) ==
    [k \in 1..Len(current) |-> Append(current[k], token)]

\* every sequence of current continued by the first alternative only
ProductFirstOnly(current, alternatives) ==
    [k \in 1..Len(current) |-> current[k] \o alternatives[1]]

\* every sequence of current continued by every alternative of a group
Product(current, alternatives) ==
    [k \in 1..(Len(current) * Len(alternatives)) |->
        current[((k - 1) \div Len(alternatives)) + 1]
            \o alternatives[((k - 1) % Len(alternatives)) + 1]]

\* the scan from token i at nesting depth: done holds the sequences of the
\* alternatives closed so far, current those of the alternative being read
RECURSIVE Scan(_, _, _, _, _)
Scan(sent, i, depth, done, current) ==
    IF i > Len(sent)
        THEN (IF depth > 0 THEN Scanned("SyntaxError", <<>>, i)
              ELSE Scanned("", done \o current, i))
    ELSE IF sent[i] = "("
        THEN LET group == Scan(sent, i + 1, depth + 1, <<>>, <<<<>>>>)
             IN IF group.raised # "" THEN group
                ELSE Scan(sent, group.next, depth, done,
                          Product(current, group.result))
    ELSE IF sent[i] = "|"
        THEN Scan(sent, i + 1, depth, done \o current, <<<<>>>>)
    ELSE IF sent[i] = ")"
        THEN (IF depth = 0 THEN Scanned("SyntaxError", <<>>, i)
              ELSE Scanned("", done \o current, i + 1))
    ELSE Scan(sent, i + 1, depth, done, WithToken(current, sent[i]))

\* expand_parentheses(sent)
expand_parentheses(sent) == Scan(sent, 1, 0, <<>>, <<<<>>>>)

----------------------------------------------------------------------------
(* join_list.  An item is an integer or a string: its type and the string *)
(* str() gives for it.                                                     *)

IntItem(n) == [type |-> "int", str |-> str(n)]

StrItem(s) == [type |-> "str", str |-> s]

\* str(item)
ItemStr(item) == item.str

\* the .word files under res/text: <<full language code, name>> -> first word
WordFiles == (<<EN_US, "and">> :> <<"and">>) @@ (<<ES_ES, "and">> :> <<"y">>)

\* _translate_word(name, lang): the word of the language's file, else the name
_translate_word(name, lang, dflt) ==
    LET lang_code == get_full_lang_code(lang, dflt)
    IN IF <<lang_code, name>> \in DOMAIN WordFiles THEN WordFiles[<<lang_code, name>>]
       ELSE <<name>>

\* sep.join(strings)
RECURSIVE str_join(_, _)
str_join(sep, strings) ==
    IF strings = <<>> THEN <<>>
    ELSE IF Len(strings) = 1 THEN strings[1]
    ELSE strings[1] \o sep \o str_join(sep, Tail(strings))

\* join_list(items, connector, sep, lang): sep = <<>> stands for sep=None
join_list(items, connector, sep, lang, dflt) ==
    IF items = <<>> THEN End("", <<>>)
    ELSE IF Len(items) = 1 THEN End("", ItemStr(items[1]))
    ELSE LET separator == IF sep = <<>> THEN <<",", " ">> ELSE sep \o <<" ">>
             head == str_join(separator,
                              [k \in 1..(Len(items) - 1) |-> ItemStr(items[k])])
         IN IF items[Len(items)].type # "str" THEN End("TypeError", <<>>)
            ELSE End("", head \o <<" ">> \o _translate_word(connector, lang, dflt)
                             \o <<" ">> \o items[Len(items)].str)

----------------------------------------------------------------------------
(* Actions: one call of an operation each *)

Call(op, args, raised, value) ==
    [op |-> op, args |-> args, raised |-> raised, value |-> value]

Becomes(st) ==
    /\ default_lang' = st.default_lang
    /\ loaded_langs' = st.loaded_langs
    /\ localized_functions' = st.localized_functions
    /\ UNCHANGED <<installed, res_text, lang_config>>

Init ==
    /\ default_lang = EN_US
    /\ loaded_langs = _SUPPORTED_LANGUAGES
    /\ localized_functions = [m \in {} |-> m]
    /\ installed \in Installations
    /\ res_text = (EN_US :> "EnUsConfig")
    /\ lang_config = [l \in {} |-> l]
    /\ last = Call("import", <<>>, "", "")

SetActiveLangs(lists) ==
    \E langs \in lists, override_default \in BOOLEAN :
        LET st == set_active_langs(Current, langs, override_default)
        IN /\ Becomes(st)
           /\ last' = Call("set_active_langs", <<langs, override_default>>, st.raised, "")

LoadLanguage(langs) ==
    \E lang \in langs :
        LET st == load_language(Current, lang)
        IN /\ Becomes(st)
           /\ last' = Call("load_language", <<lang>>, st.raised, "")

SetDefaultLang(langs) ==
    \E lang_code \in langs :
        LET st == set_default_lang(Current, lang_code)
        IN /\ Becomes(st)
           /\ last' = Call("set_default_lang", <<lang_code>>, st.raised, "")

UnloadLanguage(langs) ==
    \E lang \in langs :
        LET st == unload_language(Current, lang)
        IN /\ Becomes(st)
           /\ last' = Call("unload_language", <<lang>>, st.raised, "")

\* populate_localized_function_dict(lf_module, langs) with the caller's list:
\* the loaded languages, as _refresh_function_dict passes them, or the supported
\* languages, as Formatter.__init__ passes them by default
Populate ==
    \E lf_module \in Modules, langs \in {loaded_langs, _SUPPORTED_LANGUAGES} :
        /\ localized_functions' =
               (lf_module :> populate_localized_function_dict(installed, lf_module, langs))
                   @@ localized_functions
        /\ last' = Call("populate", <<lf_module, langs>>, "", "")
        /\ UNCHANGED <<default_lang, loaded_langs, installed, res_text, lang_config>>

Resolve ==
    \E mod \in Modules, lang \in CallLangs :
        \E func_name \in _REGISTERED_FUNCTIONS(mod) :
            LET raised == localized_function_caller(mod, func_name, lang)
            IN /\ last' = Call("resolve", <<mod, func_name, lang>>, raised,
                               IF raised = "" THEN "r_val" ELSE "")
               /\ UNCHANGED <<default_lang, loaded_langs, localized_functions, installed,
                              res_text, lang_config>>

\* the argument lists of the calls: "number" carries either value, the others one
SuppliedArgs ==
    {args \in UNION {[names -> ArgValues] : names \in SUBSET ArgNames} :
        \A a \in DOMAIN args : a # "number" => args[a] = "v1"}

Invoke ==
    \E mod \in Modules, lang \in PrimaryLangs \cup {NoLang}, args \in SuppliedArgs :
        \E func_name \in _REGISTERED_FUNCTIONS(mod) :
            LET raised == localized_function_caller(mod, func_name, lang)
            IN /\ last' = Call("invoke", <<mod, func_name, lang, args>>, raised,
                               IF raised = ""
                                   THEN invoked_with(mod, func_name, lang, args)
                                   ELSE <<>>)
               /\ UNCHANGED <<default_lang, loaded_langs, localized_functions, installed,
                              res_text, lang_config>>

Format ==
    \E func_name \in _REGISTERED_FUNCTIONS("format"), lang \in CallLangs,
       r_val \in ImplResults :
        LET end == FormatterCall(func_name, lang, r_val)
        IN /\ last' = Call(func_name, <<lang>>, end.raised, end.value)
           /\ UNCHANGED <<default_lang, loaded_langs, localized_functions, installed,
                              res_text, lang_config>>

\* the languages the date and year operations are asked for
DateLangs == {NoLang, ES_ES}

\* years beyond MaxYear, one or more for every shape the rule tables tell apart
LaterYears == {10, 15, 20, 21, 100, 105, 1000, 1005, 1100, 1984, 2000, 2102}

Years == (0..MaxYear) \cup LaterYears

\* what res/text may hold when the Formatter is built
ResTexts ==
    { (EN_US :> "EnUsConfig"),
      (EN_US :> "EnUsConfig") @@ (ES_ES :> "SparseConfig") }

InitDateTime ==
    /\ default_lang = EN_US
    /\ loaded_langs = _SUPPORTED_LANGUAGES
    /\ localized_functions = [m \in {} |-> m]
    /\ installed = Installation(AllUnits, FullFunctions, {})
    /\ res_text \in ResTexts
    /\ lang_config = [l \in {} |-> l]
    /\ last = Call("import", <<>>, "", "")

\* res/text with a configuration that cannot be compiled, or without any
BrokenResTexts ==
    { [l \in {} |-> l],
      (ES_ES :> "BrokenConfig"),
      (EN_US :> "EnUsConfig") @@ (ES_ES :> "BrokenConfig"),
      (EN_US :> "BrokenConfig") }

InitCache ==
    /\ default_lang = EN_US
    /\ loaded_langs = _SUPPORTED_LANGUAGES
    /\ localized_functions = [m \in {} |-> m]
    /\ installed = Installation(AllUnits, FullFunctions, {})
    /\ res_text \in BrokenResTexts
    /\ lang_config = [l \in {} |-> l]
    /\ last = Call("import", <<>>, "", "")

\* a date_time.json is added under res/text while the process runs
InstallFile ==
    /\ ES_ES \notin DOMAIN res_text
    /\ res_text' = (ES_ES :> "SparseConfig") @@ res_text
    /\ last' = Call("install", <<ES_ES>>, "", "")
    /\ UNCHANGED <<default_lang, loaded_langs, localized_functions, installed,
                   lang_config>>

\* date_time_format.cache(full_code), the first step of nice_date, nice_date_time
\* and nice_year
Cache ==
    \E lang \in DateLangs :
        LET full_code == get_full_lang_code(lang, default_lang)
        IN /\ lang_config' = cache(lang_config, res_text, full_code)
           /\ last' = Call("cache", <<full_code>>,
                            cache_raised(lang_config, res_text, full_code), "")
           /\ UNCHANGED <<default_lang, loaded_langs, localized_functions,
                          installed, res_text>>

\* _format_string(number, format_section, lang) for a cached language
FormatString ==
    \E lang \in DOMAIN lang_config, format_section \in FormatSections,
       number \in Years :
        /\ LET raised == _format_string_raised(lang_config, number, format_section, lang)
           IN last' = Call("_format_string", <<number, format_section, lang>>, raised,
                           IF raised = "" THEN
                               _format_string(lang_config, number, format_section, lang)
                           ELSE <<>>)
        /\ UNCHANGED <<default_lang, loaded_langs, localized_functions, installed,
                       res_text, lang_config>>

\* _number_strings(number, lang) for a cached language
NumberStrings ==
    \E lang \in DOMAIN lang_config, number \in Years :
        /\ last' = Call("_number_strings", <<number, lang>>, "",
                         _number_strings(lang_config, number, lang))
        /\ UNCHANGED <<default_lang, loaded_langs, localized_functions, installed,
                       res_text, lang_config>>

\* nice_year(dt, lang, bc) for dt.year = year
NiceYear ==
    \E lang \in DateLangs, year \in Years, bc \in BOOLEAN :
        LET full_code == get_full_lang_code(lang, default_lang)
            config == cache(lang_config, res_text, full_code)
        IN /\ lang_config' = config
           /\ last' = Call("nice_year", <<year, lang, bc>>, "",
                            year_format(config, year, full_code, bc))
           /\ UNCHANGED <<default_lang, loaded_langs, localized_functions,
                          installed, res_text>>

\* the dates the model formats: neighbouring days within a month, across the
\* end of a month and across the end of a year, and days further apart within
\* a month, within a year and in different years
Dates ==
    { Date(2019, 1, 1), Date(2019, 1, 2), Date(2019, 1, 31), Date(2019, 2, 1),
      Date(2019, 12, 31), Date(2020, 1, 1), Date(2020, 1, 2) }

\* nice_date(dt, lang, now)
NiceDate ==
    \E dt \in Dates, lang \in DateLangs, now \in Dates \cup {NoDate} :
        LET full_code == get_full_lang_code(lang, default_lang)
            config == cache(lang_config, res_text, full_code)
        IN /\ lang_config' = config
           /\ last' = Call("nice_date", <<dt, lang, now>>, "",
                            date_format(config, dt, full_code, now))
           /\ UNCHANGED <<default_lang, loaded_langs, localized_functions,
                          installed, res_text>>

\* the tokens of 'will it (rain|pour) (today|tomorrow|)'
RainSentence ==
    << "will", "it", "(", "rain", "|", "pour", ")",
       "(", "today", "|", "tomorrow", "|", ")" >>

\* opening minus closing parentheses among the tokens i..k of a sequence
RECURSIVE Depth(_, _, _)
Depth(s, i, k) ==
    IF k < i THEN 0
    ELSE Depth(s, i, k - 1)
             + (IF s[k] = "(" THEN 1 ELSE 0)
             - (IF s[k] = ")" THEN 1 ELSE 0)

\* balanced parentheses, and every "|" inside a group
IsBalanced(s) ==
    /\ Depth(s, 1, Len(s)) = 0
    /\ \A k \in 1..Len(s) :
           /\ s[k] = ")" => Depth(s, 1, k - 1) > 0
           /\ s[k] = "|" => Depth(s, 1, k) > 0

\* a sentence with a group inside an alternative, between plain tokens
NestedSentence ==
    << "a", "(", "b", "|", "(", "c", "|", "d", ")", "e", ")", "(", "|", "f", ")" >>

\* the token sequences handed to expand_parentheses: the balanced ones of up to
\* MaxTokens tokens, the shortest unbalanced ones, and the two sentences above
Sentences ==
    {s \in SeqsUpTo({"a", "b", "(", "|", ")"}, MaxTokens) : IsBalanced(s) \/ Len(s) <= 2}
        \cup {RainSentence, NestedSentence}

\* expand_parentheses(sent)
ExpandParentheses ==
    \E sent \in Sentences :
        LET end == expand_parentheses(sent)
        IN /\ last' = Call("expand_parentheses", <<sent>>, end.raised, end.result)
           /\ UNCHANGED <<default_lang, loaded_langs, localized_functions, installed,
                          res_text, lang_config>>

\* the items of the lists handed to join_list
Items == {IntItem(1), IntItem(2), IntItem(3), StrItem(<<"a">>)}

\* join_list(items, connector, sep, lang)
JoinList ==
    \E items \in SeqsUpTo(Items, MaxItems), connector \in {"and", "or"},
       sep \in {<<>>, <<";">>}, lang \in DateLangs :
        LET end == join_list(items, connector, sep, lang, default_lang)
        IN /\ last' = Call("join_list", <<items, connector, sep, lang>>,
                            end.raised, end.value)
           /\ UNCHANGED <<default_lang, loaded_langs, localized_functions, installed,
                          res_text, lang_config>>

----------------------------------------------------------------------------
(* Specifications *)

\* the registry and the dispatcher under changes of the language state
Next ==
    \/ SetActiveLangs(ShortLists)
    \/ LoadLanguage(PrimaryLangs)
    \/ SetDefaultLang(PrimaryLangs)
    \/ Populate
    \/ Resolve

Spec == Init /\ [][Next]_vars

\* the language state alone, under every short list of codes
NextLangs ==
    \/ SetActiveLangs(LangLists)
    \/ LoadLanguage(MutLangs)
    \/ SetDefaultLang(MutLangs)

SpecLangs == Init /\ [][NextLangs]_vars

\* the language state with unloading
NextUnload ==
    \/ SetActiveLangs(LangLists)
    \/ LoadLanguage(MutLangs)
    \/ SetDefaultLang(MutLangs)
    \/ UnloadLanguage(MutLangs)

SpecUnload == Init /\ [][NextUnload]_vars

\* the Formatter operations over the registry
NextFormat ==
    \/ SetActiveLangs(ShortLists)
    \/ LoadLanguage(PrimaryLangs)
    \/ Populate
    \/ Format

SpecFormat == Init /\ [][NextFormat]_vars

\* the rule tables and the word table of the cached configurations
NextRules ==
    \/ InstallFile
    \/ Cache
    \/ FormatString
    \/ NumberStrings

SpecRules == InitDateTime /\ [][NextRules]_vars

\* the year formatting
NextYear ==
    \/ InstallFile
    \/ NiceYear

SpecYear == InitDateTime /\ [][NextYear]_vars

\* the date formatting
NextDate == NiceDate

SpecDate == InitDateTime /\ [][NextDate]_vars

\* the expansion of bracketed alternatives
NextBrackets == ExpandParentheses

\* the expansion reads neither the language state nor res/text
InitBrackets == InitDateTime /\ res_text = (EN_US :> "EnUsConfig")

SpecBrackets == InitBrackets /\ [][NextBrackets]_vars

\* the joining of lists
NextJoin == JoinList

SpecJoin == InitBrackets /\ [][NextJoin]_vars

\* the cache of configurations when loading may fail
NextCache ==
    \/ Cache
    \/ FormatString

SpecCache == InitCache /\ [][NextCache]_vars

\* the arguments an implementation is invoked with
NextArgs ==
    \/ Populate
    \/ Invoke

SpecArgs == Init /\ [][NextArgs]_vars

----------------------------------------------------------------------------
(* Properties of the dispatcher and the registry (specification Spec) *)

UnresolvedLanguage == "UnsupportedLanguageError"
ModuleNotRegistered == "ModuleNotFoundError: not recognized"
LanguageNotLoaded == "ModuleNotFoundError: not currently loaded"
NotLocalized == "FunctionNotLocalizedError"

\* the primary code the dispatcher reduces a requested language to
RequestedCode(lang) == get_primary_lang_code(lang, default_lang)

\* every populated module's registry holds exactly the loaded languages
InSync ==
    \A mod \in DOMAIN localized_functions :
        DOMAIN localized_functions[mod] = Range(loaded_langs)

\* C1: a request for an implemented function of a supported language that fails
\* with LanguageNotLoaded, its module being populated and the language not
\* loaded, succeeds right after load_language of that language.
C1_LoadedLanguageResolves ==
    [][\A mod \in Modules, lang \in PrimaryLangs :
         \A func_name \in _REGISTERED_FUNCTIONS(mod) :
           ( /\ mod \in DOMAIN localized_functions
             /\ loaded_langs # <<>>
             /\ lang \notin Range(loaded_langs)
             /\ <<mod, lang, func_name>> \in installed.functions
             /\ localized_function_caller(mod, func_name, lang) = LanguageNotLoaded
             /\ last'.op = "load_language"
             /\ last'.args = <<lang>> )
           => localized_function_caller(mod, func_name, lang)' = ""]_vars

\* C2: every language registered for a populated module has an entry for every
\* function of the module's catalog, and no lookup of a catalog function of a
\* registered language meets a missing key.
C2_CatalogComplete ==
    /\ \A mod \in DOMAIN localized_functions :
         \A lang_code \in DOMAIN localized_functions[mod] :
           DOMAIN localized_functions[mod][lang_code] = _REGISTERED_FUNCTIONS(mod)
    /\ \A mod \in Modules, lang \in CallLangs :
         \A func_name \in _REGISTERED_FUNCTIONS(mod) :
           localized_function_caller(mod, func_name, lang) # "KeyError"

\* C3: a call of set_active_langs, load_language or set_default_lang that returns
\* and changes the language state, made with some language loaded and every
\* populated module's registry holding the loaded languages, leaves every
\* populated module's registry holding exactly the new loaded languages.
C3_RegistryFollowsLoaded ==
    [][( /\ last'.op \in {"set_active_langs", "load_language", "set_default_lang"}
         /\ last'.raised = ""
         /\ loaded_langs # <<>>
         /\ InSync
         /\ <<default_lang, loaded_langs>>' # <<default_lang, loaded_langs>> )
       => InSync']_vars

\* C4: the dispatcher reports the first failure that applies, in the order
\* unsupported language, module never populated, language not registered for
\* the module, entry is the not-implemented sentinel; it invokes the
\* implementation only when none of them applies.
C4_FailureOrder ==
    last.op = "resolve" =>
        LET mod == last.args[1]
            func_name == last.args[2]
            code == RequestedCode(last.args[3])
            unsupported == code \notin Range(_SUPPORTED_LANGUAGES)
            unpopulated == mod \notin DOMAIN localized_functions
            unloaded == ~unpopulated /\ code \notin DOMAIN localized_functions[mod]
            sentinel == /\ ~unpopulated /\ ~unloaded
                        /\ func_name \in DOMAIN localized_functions[mod][code]
                        /\ localized_functions[mod][code][func_name].kind
                               = "FunctionNotLocalizedError"
        IN /\ unsupported => last.raised = UnresolvedLanguage
           /\ (~unsupported /\ unpopulated) => last.raised = ModuleNotRegistered
           /\ (~unsupported /\ unloaded) => last.raised = LanguageNotLoaded
           /\ (~unsupported /\ sentinel) => last.raised = NotLocalized
           /\ last.raised = "" =>
                  ~unsupported /\ ~unpopulated /\ ~unloaded /\ ~sentinel

\* a request in an unsupported language for a module never populated is
\* answered UnresolvedLanguage
C4_Witness ==
    /\ last.op = "resolve"
    /\ last.args[3] = XX
    /\ last.args[1] \notin DOMAIN localized_functions
    /\ last.raised = UnresolvedLanguage

----------------------------------------------------------------------------
(* Properties of the language state (specifications SpecLangs, SpecUnload) *)

\* the primary codes of a list of non-empty codes
Primaries(langs) == [i \in 1..Len(langs) |-> Code(Head(langs[i]))]

\* the index of the first occurrence of x in s
FirstIndex(s, x) == CHOOSE i \in 1..Len(s) : s[i] = x /\ \A j \in 1..(i - 1) : s[j] # x

\* out lists the elements of s once each, in the order of their first occurrence
IsFirstOccurrences(out, s) ==
    /\ Range(out) = Range(s)
    /\ \A i, j \in 1..Len(out) :
         i < j => out[i] # out[j] /\ FirstIndex(s, out[i]) < FirstIndex(s, out[j])

\* C5: unloading the language that is the default while others remain loaded
\* makes the first remaining loaded language the default; unloading a language
\* that is not the default leaves the default unchanged.
C5_DefaultFailover ==
    [][last'.op = "unload_language" =>
         LET lang == last'.args[1]
             is_default == Code(Head(lang)) = Code(Head(default_lang))
             remaining == Remove(loaded_langs, lang)
         IN /\ (lang \in Range(loaded_langs) /\ is_default /\ remaining # <<>>)
                   => /\ default_lang' = remaining[1]
                      /\ loaded_langs' = remaining
            /\ ~is_default => default_lang' = default_lang]_vars

\* 'en' was unloaded from ['en', 'es'] with default 'en': the default is 'es'
C5_Witness ==
    /\ last.op = "unload_language"
    /\ last.args = <<EN>>
    /\ loaded_langs = <<ES>>
    /\ default_lang = ES

\* C6: the first language loaded into an empty loaded list becomes the default,
\* and loading a language into a non-empty list leaves the default unchanged.
C6_FirstLoadedIsDefault ==
    [][last'.op = "load_language" =>
         /\ loaded_langs = <<>> =>
                Code(Head(default_lang')) = Code(Head(last'.args[1]))
         /\ loaded_langs # <<>> => default_lang' = default_lang]_vars

\* C7: after set_active_langs(L) returns for a non-empty L, the loaded list is
\* the primary codes of L, once each, in the order of their first occurrence.
C7_LoadedIsDeduplicated ==
    (last.op = "set_active_langs" /\ last.raised = "" /\ last.args[1] # <<>>)
        => IsFirstOccurrences(loaded_langs, Primaries(last.args[1]))

\* ['en-us', 'en'] was set while 'es' was loaded: only 'en' is loaded
C7_Witness ==
    /\ last.op = "set_active_langs"
    /\ last.raised = ""
    /\ last.args[1] = <<EN_US, EN>>
    /\ loaded_langs = <<EN>>

\* C8: after set_active_langs(L) returns, the default is (the primary code of)
\* the first entry of L when override_default is left True, and the call has
\* not changed the default when the caller passed override_default=False.
C8_DefaultIsFirstUnlessOverridden ==
    [][(last'.op = "set_active_langs" /\ last'.raised = "") =>
         IF last'.args[2]
         THEN default_lang' = Primaries(last'.args[1])[1]
         ELSE default_lang' = default_lang]_vars

\* C9: set_active_langs(L) with its default arguments leaves the default language
\* as it is when that language is among L, and makes L[0] the default otherwise.
C9_DefaultKeptWhenPresent ==
    [][(last'.op = "set_active_langs" /\ last'.raised = "" /\ last'.args[2]) =>
         IF Code(Head(default_lang)) \in Range(Primaries(last'.args[1]))
         THEN Code(Head(default_lang')) = Code(Head(default_lang))
         ELSE default_lang' = Primaries(last'.args[1])[1]]_vars

\* C20: populate(module, languages) leaves every other module's registry as it
\* was and registers for the module exactly the languages of the list; run
\* again with the same module and list, it leaves the module's registry as the
\* first run made it.
C20_PopulateIdempotent ==
    [][last'.op = "populate" =>
         LET mod == last'.args[1]
             langs == last'.args[2]
         IN /\ DOMAIN localized_functions' = DOMAIN localized_functions \cup {mod}
            /\ \A other \in DOMAIN localized_functions \ {mod} :
                   localized_functions'[other] = localized_functions[other]
            /\ DOMAIN localized_functions'[mod] = Range(langs)
            /\ (last.op = "populate" /\ last.args = last'.args)
                   => localized_functions'[mod] = localized_functions[mod]]_vars

\* "format" was populated for the supported languages while only 'en' was
\* loaded and "parse" was registered for 'en': "parse" is as it was
C20_Witness ==
    /\ last.op = "populate"
    /\ last.args = <<"format", _SUPPORTED_LANGUAGES>>
    /\ loaded_langs = <<EN>>
    /\ "parse" \in DOMAIN localized_functions
    /\ DOMAIN localized_functions["parse"] = {EN}
    /\ DOMAIN localized_functions["format"] = Range(_SUPPORTED_LANGUAGES)

----------------------------------------------------------------------------
(* Properties of the Formatter operations (specification SpecFormat) *)

\* the registry entry a Formatter operation asked for in language lang meets,
\* when the language is supported and registered for "format"
HasSentinel(func_name, lang) ==
    LET code == RequestedCode(lang)
    IN /\ code \in Range(_SUPPORTED_LANGUAGES)
       /\ "format" \in DOMAIN localized_functions
       /\ code \in DOMAIN localized_functions["format"]
       /\ func_name \in DOMAIN localized_functions["format"][code]
       /\ localized_functions["format"][code][func_name].kind
              = "FunctionNotLocalizedError"

\* C10: nice_number, nice_time, pronounce_number and nice_ordinal, meeting the
\* not-implemented sentinel for the requested language, do not fail and return
\* the raw string of their input.
C10_ConvenienceDegrades ==
    ( /\ last.op \in {"nice_number", "nice_time", "pronounce_number", "nice_ordinal"}
      /\ HasSentinel(last.op, last.args[1]) )
        => last.raised = "" /\ last.value \in {"str(input)", "text"}

\* C11: every Formatter operation asked for a language whose primary code is not
\* supported ends by raising UnsupportedLanguageError; none returns a value.
C11_UnsupportedIsFatal ==
    ( /\ last.op \in _REGISTERED_FUNCTIONS("format")
      /\ RequestedCode(last.args[1]) \notin Range(_SUPPORTED_LANGUAGES) )
        => last.raised = UnresolvedLanguage

----------------------------------------------------------------------------
(* Properties of DateTimeFormat (specifications SpecRules and SpecYear) *)

\* the rules of a rule table whose pattern accepts str(number)
MatchingRules(section, number) ==
    {i \in DOMAIN section.rules : re_match(section.rules[i].re, str(number))}

Lowest(indices) == CHOOSE i \in indices : \A j \in indices : i <= j

\* C12: _format_string returns the template of the lowest-numbered rule whose
\* pattern accepts str(number), and the default template when no rule does.
C12_FirstMatchWins ==
    last.op = "_format_string" =>
        LET section == lang_config[last.args[3]][last.args[2]]
            matching == MatchingRules(section, last.args[1])
        IN IF matching = {} THEN last.value = section.default
           ELSE last.value = section.rules[Lowest(matching)].format

\* two rules of a table accept "15" and the template of the lower one is returned
C12_Witness ==
    /\ last.op = "_format_string"
    /\ last.args = <<15, "decade_format", ES_ES>>
    /\ lang_config[ES_ES] = Compiled(SparseConfig)
    /\ MatchingRules(lang_config[ES_ES].decade_format, 15) = {2, 3}
    /\ last.value = <<"{x}">>

\* the key each field of the decomposition of number is looked up with
FieldKeys(number) ==
    [ x |-> number % 10,
      xx |-> number % 100,
      x0 |-> ((number % 100) \div 10) * 10,
      x_in_x0 |-> (number % 100) \div 10,
      xxx |-> number % 1000,
      x00 |-> ((number % 1000) \div 100) * 100,
      x_in_x00 |-> (number % 1000) \div 100,
      xx00 |-> ((number % 10000) \div 100) * 100,
      xx_in_xx00 |-> (number % 10000) \div 100,
      x000 |-> ((number % 10000) \div 1000) * 1000,
      x_in_x000 |-> (number % 10000) \div 1000,
      x0_in_x000 |-> ((number % 10000) \div 1000) * 10,
      x_in_0x00 |-> (number % 1000) \div 100 ]

\* C13: every field of _number_strings whose key has no entry in the word table
\* is the decimal string of that key, and no field is None.
C13_WordFallback ==
    last.op = "_number_strings" =>
        LET keys == FieldKeys(last.args[1])
            table == lang_config[last.args[2]].number
        IN \A field \in DOMAIN keys :
               /\ last.value[field] # None
               /\ str(keys[field]) \notin DOMAIN table
                      => last.value[field] = str(keys[field])

C18_LoadedOnce ==
    [][ /\ \A lang \in DOMAIN lang_config :
              lang \in DOMAIN lang_config' /\ lang_config'[lang] = lang_config[lang]
        /\ last'.op = "cache" =>
              LET lang == last'.args[1]
              IN IF lang \in DOMAIN lang_config
                 THEN lang_config' = lang_config
                 ELSE /\ DOMAIN lang_config' = DOMAIN lang_config \cup {lang}
                      /\ lang_config'[lang] =
                             Compiled(json_loads(
                                 IF lang \in DOMAIN res_text THEN res_text[lang]
                                 ELSE res_text[EN_US])) ]_vars

\* 'es-es' was cached from the en-us data, its own file appeared afterwards,
\* and a later cache('es-es') kept the en-us data
C18_Witness ==
    /\ last.op = "cache"
    /\ last.args = <<ES_ES>>
    /\ ES_ES \in DOMAIN res_text
    /\ json_loads(res_text[ES_ES]) = SparseConfig
    /\ ES_ES \in DOMAIN lang_config
    /\ lang_config[ES_ES] = Compiled(EnUsConfig)

----------------------------------------------------------------------------
(* Properties of the date formatting (specification SpecDate) *)

\* the template the stated decision selects for dt with the reference date now
DecidedTemplate(dt, now) ==
    IF now = NoDate THEN "date_full"
    ELSE IF dt = PlusOneDay(now) THEN "tomorrow"
    ELSE IF dt = now THEN "today"
    ELSE IF dt = MinusOneDay(now) THEN "yesterday"
    ELSE IF dt.year = now.year /\ dt.month = now.month /\ dt.day > now.day
        THEN "date_full_no_year_month"
    ELSE IF dt.year = now.year THEN "date_full_no_year"
    ELSE "date_full"

C15_DateShortenedAsDocumented ==
    ( /\ last.op = "nice_date"
      /\ last.args[3] # NoDate
      /\ last.args[1] \notin {last.args[3], PlusOneDay(last.args[3]),
                              MinusOneDay(last.args[3])}
      /\ last.args[1].year = last.args[3].year )
        => LET dt == last.args[1]
               full_code == get_full_lang_code(last.args[2], default_lang)
           IN last.value = DateFormatted(lang_config, dt, full_code,
                               IF dt.month = last.args[3].month
                               THEN "date_full_no_year_month"
                               ELSE "date_full_no_year")

----------------------------------------------------------------------------
(* Properties of the bracket expansion (specification SpecBrackets) *)

\* the alternatives of the region s[from..to] of a group: its parts between
\* the "|" that belong to the group itself
RECURSIVE Alternatives(_, _, _)
Alternatives(s, from, to) ==
    LET bars == {k \in from..to : s[k] = "|" /\ Depth(s, from, k) = 0}
    IN IF bars = {} THEN <<SubSeq(s, from, to)>>
       ELSE LET bar == CHOOSE k \in bars : \A j \in bars : k <= j
            IN <<SubSeq(s, from, bar - 1)>> \o Alternatives(s, bar + 1, to)

\* the product, stated by substitution: the first group of the sequence is
\* replaced by each of its alternatives in turn, and the same is done to
\* every sequence so obtained until no group is left
RECURSIVE Substitutions(_)
Substitutions(s) ==
    LET opens == {k \in 1..Len(s) : s[k] = "("}
    IN IF opens = {} THEN <<s>>
       ELSE LET open == CHOOSE k \in opens : \A j \in opens : k <= j
                close == CHOOSE k \in (open + 1)..Len(s) :
                             /\ Depth(s, open, k) = 0
                             /\ \A j \in (open + 1)..(k - 1) : Depth(s, open, j) > 0
                alternatives == Alternatives(s, open + 1, close - 1)
                Each[n \in 0..Len(alternatives)] ==
                    IF n = 0 THEN <<>>
                    ELSE Each[n - 1]
                             \o Substitutions(SubSeq(s, 1, open - 1)
                                                  \o alternatives[n]
                                                  \o SubSeq(s, close + 1, Len(s)))
            IN Each[Len(alternatives)]

\* C17: for a balanced token sequence, every "|" of it within a group,
\* expand_parentheses returns, without
\* failing, one sequence for every choice of one alternative per group, in the
\* order of the groups, each made of the chosen alternatives and the tokens
\* around them in their order; the rain sentence gives exactly 6 sequences.
C17_CartesianProduct ==
    (last.op = "expand_parentheses" /\ IsBalanced(last.args[1])) =>
        /\ last.raised = ""
        /\ last.value = Substitutions(last.args[1])
        /\ last.args[1] = RainSentence => Len(last.value) = 6

\* the rain sentence was expanded to its six sequences, the last of them
\* taking the empty alternative
C17_Witness ==
    /\ last.op = "expand_parentheses"
    /\ last.args[1] = RainSentence
    /\ Len(last.value) = 6
    /\ last.value[1] = <<"will", "it", "rain", "today">>
    /\ last.value[6] = <<"will", "it", "pour">>

----------------------------------------------------------------------------
(* Properties of join_list (specification SpecJoin) *)

\* the items before the last, each as a string followed by what separates it
\* from the next
RECURSIVE Separated(_, _)
Separated(items, separator) ==
    IF Len(items) <= 1 THEN <<>>
    ELSE ItemStr(items[1])
             \o (IF Len(items) = 2 THEN <<>> ELSE separator \o <<" ">>)
             \o Separated(Tail(items), separator)

\* C19: join_list does not fail; it returns '' for no item, the string of a
\* single item, and for more items of any type the strings of all but the last
\* joined by the separator and a space (', ' by default), then a space, the
\* translated connector, a space and the string of the last item.
C19_JoinList ==
    last.op = "join_list" =>
        LET items == last.args[1]
            separator == IF last.args[3] = <<>> THEN <<",">> ELSE last.args[3]
        IN /\ last.raised = ""
           /\ last.value =
                  IF items = <<>> THEN <<>>
                  ELSE IF Len(items) = 1 THEN ItemStr(items[1])
                  ELSE Separated(items, separator) \o <<" ">>
                           \o _translate_word(last.args[2], last.args[4], default_lang)
                           \o <<" ">> \o ItemStr(items[Len(items)])

\* the word W(k) of a word table: the entry of the key's decimal string, the
\* decimal string itself when there is none
W(table, k) == IF str(k) \in DOMAIN table THEN table[str(k)] ELSE str(k)

\* C22: every field of the decomposition of n is the word W(k) of its key k, the
\* keys being n mod 10, n mod 100, (n mod 100) div 10 and so on as in FieldKeys,
\* with x_in_x00 and x_in_0x00 the same word; the fields are computed from n
\* and the language's word table on every call.
C22_DecompositionFields ==
    last.op = "_number_strings" =>
        LET keys == FieldKeys(last.args[1])
            table == lang_config[last.args[2]].number
        IN /\ DOMAIN last.value = DOMAIN keys
           /\ \A field \in DOMAIN keys : last.value[field] = W(table, keys[field])
           /\ last.value.x_in_x00 = last.value.x_in_0x00

\* C23: after any sequence of set_active_langs, load_language and set_default_lang
\* calls, returning or raising, the default language is represented in the list
\* of loaded languages (the default code or its primary subtag is a member) and
\* the list holds at most one entry per primary language code.
C23_LanguageStateConsistent ==
    /\ \/ default_lang \in Range(loaded_langs)
       \/ Code(Head(default_lang)) \in Range(loaded_langs)
    /\ \A i, j \in 1..Len(loaded_langs) :
           i # j => Primaries(loaded_langs)[i] # Primaries(loaded_langs)[j]

----------------------------------------------------------------------------
(* Properties of the invocation (specification SpecArgs) *)

\* C21: when the dispatcher resolves, the implementation is invoked with exactly the
\* supplied named arguments whose names it declares as parameters, each with the
\* value supplied for it; the supplied arguments it does not declare are dropped
\* and the call raises nothing on their account.
C21_DeclaredArgumentsPassed ==
    (last.op = "invoke" /\ last.raised = "") =>
        LET args == last.args[4]
            declared == Parameters(<<last.args[1], RequestedCode(last.args[3]),
                                     last.args[2]>>)
        IN /\ DOMAIN last.value = DOMAIN args \cap declared
           /\ \A a \in DOMAIN last.value : last.value[a] = args[a]

\* a Spanish implementation invoked with "number" alone of four supplied arguments
C21_Witness ==
    /\ last.op = "invoke" /\ last.raised = ""
    /\ last.args[3] = ES
    /\ DOMAIN last.args[4] = ArgNames
    /\ last.args[4]["number"] = "v2"
    /\ DOMAIN last.value = {"number"}
    /\ last.value["number"] = "v2"

----------------------------------------------------------------------------
(* Properties of the cache when loading fails (specification SpecCache) *)

\* C24: the cache is filled all-or-nothing: when cache(lang) raises, because no
\* en-us data is there to fall back on or because a rule's pattern cannot be
\* compiled, it leaves no entry for lang; so every numbered rule of the four rule
\* tables of every cached language carries its compiled 're', and
\* _format_string never meets a rule without one.
C24_CacheAllOrNothing ==
    /\ (last.op = "cache" /\ last.raised # "") => last.args[1] \notin DOMAIN lang_config
    /\ \A lang \in DOMAIN lang_config : \A x \in FormatSections :
           \A i \in DOMAIN lang_config[lang][x].rules :
               "re" \in DOMAIN lang_config[lang][x].rules[i]
    /\ last.op = "_format_string" => last.raised # "KeyError"

====
